---- MODULE Spec2Model ----
(***************************************************************************)
(* Model of the submission integrity and incentive engine of               *)
(* backend/app.py: the admission gate and validation of submit, the        *)
(* attention and participant statistics it maintains, and the reward       *)
(* lottery, over a PostgreSQL store under READ COMMITTED.                  *)
(*                                                                         *)
(* Every request runs on its own session (one transaction per request).    *)
(* A statement reads the committed tables; the writes of an open           *)
(* transaction are kept in wr and reach the tables at its commit.  A       *)
(* written row is locked until commit or rollback, so a second writer of   *)
(* the same key waits.                                                     *)
(***************************************************************************)
EXTENDS Integers, Sequences, FiniteSets, Bags, TLC

VARIABLES
    now,               \* wall clock, in seconds
    participants,      \* participant_id -> [consent_given, payment_status]
    consent_records,   \* participant ids with a consent record
    payments,          \* sequence of [participant_id, order_id, status, payment_id]
    images,            \* image ids of the images table
    attention_stats,   \* participant_id -> attention_stats row
    participant_stats, \* participant_id -> participant_stats row
    submissions,       \* bag of submission rows
    reward_winners,    \* sequence of reward_winners rows
    pc,                \* request context -> position in its handler
    arg,               \* request context -> the request (operation, participant, payload)
    loc,               \* request context -> local variables of the handler
    wr,                \* request context -> uncommitted writes of its transaction
    held,              \* request context -> row locks its transaction holds
    resp,              \* the response the last step returned, with the call it answers
    draws              \* participant_id -> the last two random draws of the lottery

tables == <<participants, consent_records, payments, images, attention_stats,
            participant_stats, submissions, reward_winners>>
vars == <<now, participants, consent_records, payments, images, attention_stats,
          participant_stats, submissions, reward_winners, pc, arg, loc, wr, held,
          resp, draws>>

-----------------------------------------------------------------------------
(* Bounds of the model *)

MaxSubmissions == 4
MaxRewardSubmissions == 2
MaxTime == 61

Participants == {"p1"}
OrderIds == {"order_1"}
RegistrationIds == {"p1", "p2"}
GatewayOrderIds == {"order_1", "order_2"}
PaymentIds == {"pay_1"}
WebhookEvents == {"payment.captured", "payment.failed"}
Reqs == {"r1", "r2"}
TickSteps == {59, 60}
RandomValues == {0, 7, 99}

-----------------------------------------------------------------------------
(* Program constants *)

MIN_WORD_COUNT == 60
TOO_FAST_SECONDS == 5
cooldown_seconds == 60
reward_amount == 10

\* SQL NULL / Python None of a numeric column or field
NULL == -1

-----------------------------------------------------------------------------
(* Scores are the quotients passed / total: a pair <<numerator, denominator>> *)

Score(n, d) == <<n, d>>
ScoreLt(a, b) == a[1] * b[2] < b[1] * a[2]
ScoreGe(a, b) == ~ScoreLt(a, b)
ScoreEq(a, b) == a[1] * b[2] = b[1] * a[2]
FullScore == Score(1, 1)

Upsert(table, key, row) ==
    [k \in DOMAIN table \cup {key} |-> IF k = key THEN row ELSE table[k]]

RowsOf(seq, p) == {i \in DOMAIN seq : seq[i].participant_id = p}

-----------------------------------------------------------------------------
(* The attention_checks catalog (read-only for the engine) and the images  *)
(* that init_db.py loads into the images table                             *)

attention_checks ==
    ("attn" :> [expected_word |-> "cat", strict |-> TRUE, is_active |-> TRUE]) @@
    ("attn_off" :> [expected_word |-> "cat", strict |-> TRUE, is_active |-> FALSE])

PopulatedImages == {"img", "attn", "attn_off"}

(* A submit payload.  The description is kept as what the handler takes    *)
(* from it: word_count is count_words(description), mention tells whether  *)
(* the expected term occurs in it as a whole word ("word"), only inside a  *)
(* longer word ("inside") or not at all ("none").                          *)

BasePayload ==
    [image_id |-> "img", word_count |-> 60, mention |-> "none", rating |-> 5,
     feedback_len |-> 12, time_spent |-> 45, is_survey |-> FALSE]

ValidPayloads ==
    { [BasePayload EXCEPT !.image_id = "new"],
      [BasePayload EXCEPT !.image_id = "attn", !.mention = "word"],
      [BasePayload EXCEPT !.image_id = "attn"] }

InvalidPayloads ==
    { [BasePayload EXCEPT !.image_id = ""],
      [BasePayload EXCEPT !.image_id = "new", !.word_count = 59],
      [BasePayload EXCEPT !.rating = NULL],
      [BasePayload EXCEPT !.rating = 11],
      [BasePayload EXCEPT !.feedback_len = 4] }

Payloads == ValidPayloads \cup InvalidPayloads

\* the submissions beside the lottery: one that makes the participant
\* priority eligible and a failed attention check
RewardPayloads ==
    { [BasePayload EXCEPT !.image_id = "new", !.word_count = 500],
      [BasePayload EXCEPT !.image_id = "attn"] }

-----------------------------------------------------------------------------
(* Pure parts of submit *)

\* the admission checks with consent looked at before payment
AdmissionGateConsentFirst(p) ==
    IF p \notin DOMAIN participants THEN "NotFound"
    ELSE IF ~participants[p].consent_given THEN "ConsentRequired"
    ELSE IF participants[p].payment_status # "paid" THEN "PaymentRequired"
    ELSE "admit"

\* the admission checks without the consent check
AdmissionGateNoConsent(p) ==
    IF p \notin DOMAIN participants THEN "NotFound"
    ELSE IF participants[p].payment_status # "paid" THEN "PaymentRequired"
    ELSE "admit"

\* the admission checks on the participants row
AdmissionGate(p) ==
    IF p \notin DOMAIN participants THEN "NotFound"
    ELSE IF participants[p].payment_status # "paid" THEN "PaymentRequired"
    ELSE IF ~participants[p].consent_given THEN "ConsentRequired"
    ELSE "admit"

\* the payload validation without the check of the feedback length
ValidatePayloadNoFeedback(pl) ==
    IF pl.image_id = "" THEN "image_id is required"
    ELSE IF pl.word_count < MIN_WORD_COUNT THEN "minimum words required"
    ELSE IF pl.rating = NULL THEN "rating is required"
    ELSE IF ~(1 <= pl.rating /\ pl.rating <= 10) THEN "rating must be 1-10"
    ELSE "ok"

\* the payload validation refusing a description of exactly the minimum
ValidatePayloadStrictMinimum(pl) ==
    IF pl.image_id = "" THEN "image_id is required"
    ELSE IF pl.word_count <= MIN_WORD_COUNT THEN "minimum words required"
    ELSE IF pl.rating = NULL THEN "rating is required"
    ELSE IF ~(1 <= pl.rating /\ pl.rating <= 10) THEN "rating must be 1-10"
    ELSE IF pl.feedback_len < 5 THEN "comments too short"
    ELSE "ok"

\* the payload validation without the check of the rating's range
ValidatePayloadNoRatingRange(pl) ==
    IF pl.image_id = "" THEN "image_id is required"
    ELSE IF pl.word_count < MIN_WORD_COUNT THEN "minimum words required"
    ELSE IF pl.rating = NULL THEN "rating is required"
    ELSE IF pl.feedback_len < 5 THEN "comments too short"
    ELSE "ok"

\* the payload validation, in the order of the handler
ValidatePayload(pl) ==
    IF pl.image_id = "" THEN "image_id is required"
    ELSE IF pl.word_count < MIN_WORD_COUNT THEN "minimum words required"
    ELSE IF pl.rating = NULL THEN "rating is required"
    ELSE IF ~(1 <= pl.rating /\ pl.rating <= 10) THEN "rating must be 1-10"
    ELSE IF pl.feedback_len < 5 THEN "comments too short"
    ELSE "ok"

\* the catalog lookup without the is_active condition
IsAttentionAnyRow(pl) == pl.image_id \in DOMAIN attention_checks

IsAttention(pl) ==
    /\ pl.image_id \in DOMAIN attention_checks
    /\ attention_checks[pl.image_id].is_active

\* "TRUE" / "FALSE" for an attention check, "NULL" otherwise
AttentionPassed(pl) ==
    IF ~IsAttention(pl) THEN "NULL"
    ELSE IF attention_checks[pl.image_id].strict
         THEN (IF pl.mention = "word" THEN "TRUE" ELSE "FALSE")
         ELSE (IF pl.mention \in {"word", "inside"} THEN "TRUE" ELSE "FALSE")

TooFast(pl) == pl.time_spent # NULL /\ pl.time_spent < TOO_FAST_SECONDS

Min(a, b) == IF a < b THEN a ELSE b

\* the quality score with a submission that is not a check counted as failed
calculate_quality_score_none_fails(word_count, attention_passed, time_spent, feedback_len) ==
    LET word3 == 8 * Min(word_count, 150)
        att == IF attention_passed = "TRUE" THEN 300 ELSE 0
        time == IF time_spent # NULL /\ time_spent # 0 /\ time_spent < TOO_FAST_SECONDS
                THEN 100 ELSE 200
        fb == 2 * Min(feedback_len, 50)
    IN (2 * (word3 + 3 * (att + time + fb)) + 3) \div 6

\* the time sub-score never halved
time_score_never_fast(time_spent) == 10

\* the time sub-score in tenths: halved for a time that is given, is not
\* zero and is below the threshold
time_score(time_spent) ==
    IF time_spent # NULL /\ time_spent # 0 /\ time_spent < TOO_FAST_SECONDS
    THEN 5 ELSE 10

\* the quality score in thousandths: the weighted sum in thirds of a
\* thousandth, rounded to the nearest thousandth
calculate_quality_score(word_count, attention_passed, time_spent, feedback_len) ==
    LET word3 == 8 * Min(word_count, 150)
        att == IF attention_passed # "FALSE" THEN 300 ELSE 0
        time == 20 * time_score(time_spent)
        fb == 2 * Min(feedback_len, 50)
    IN (2 * (word3 + 3 * (att + time + fb)) + 3) \div 6

\* the attention_stats row with the score taken from the passed count as it
\* was before this check
NewAttentionStatsStale(stats, passed) ==
    LET total == IF stats = <<>> THEN 1 ELSE stats[1].total_checks + 1
        opass == IF stats = <<>> THEN 0 ELSE stats[1].passed_checks
        npass == opass + (IF passed THEN 1 ELSE 0)
        nfail == (IF stats = <<>> THEN 0 ELSE stats[1].failed_checks)
                 + (IF passed THEN 0 ELSE 1)
        score == Score(opass, total)
    IN [total_checks |-> total, passed_checks |-> npass, failed_checks |-> nfail,
        attention_score |-> score,
        is_flagged |-> ScoreLt(score, Score(3, 5)) /\ total >= 3]

\* the attention_stats row with the flag set whatever the number of checks
NewAttentionStatsFlagEarly(stats, passed) ==
    LET total == IF stats = <<>> THEN 1 ELSE stats[1].total_checks + 1
        npass == (IF stats = <<>> THEN 0 ELSE stats[1].passed_checks)
                 + (IF passed THEN 1 ELSE 0)
        nfail == (IF stats = <<>> THEN 0 ELSE stats[1].failed_checks)
                 + (IF passed THEN 0 ELSE 1)
        score == Score(npass, total)
    IN [total_checks |-> total, passed_checks |-> npass, failed_checks |-> nfail,
        attention_score |-> score,
        is_flagged |-> ScoreLt(score, Score(3, 5))]

\* the attention_stats row written after an attention check
NewAttentionStats(stats, passed) ==
    LET total == IF stats = <<>> THEN 1 ELSE stats[1].total_checks + 1
        npass == (IF stats = <<>> THEN 0 ELSE stats[1].passed_checks)
                 + (IF passed THEN 1 ELSE 0)
        nfail == (IF stats = <<>> THEN 0 ELSE stats[1].failed_checks)
                 + (IF passed THEN 0 ELSE 1)
        score == Score(npass, total)
    IN [total_checks |-> total, passed_checks |-> npass, failed_checks |-> nfail,
        attention_score |-> score,
        is_flagged |-> ScoreLt(score, Score(3, 5)) /\ total >= 3]

\* the participant_stats columns with priority_eligible taken from the word
\* and survey counts alone
NewParticipantStatsNoScore(row, word_count, is_survey, attention_score) ==
    LET new_words == IF row = <<>> THEN word_count ELSE row[1].total_words + word_count
        new_subs == IF row = <<>> THEN 1 ELSE row[1].total_submissions + 1
        new_rounds == (IF row = <<>> THEN 0 ELSE row[1].survey_rounds)
                      + (IF is_survey THEN 1 ELSE 0)
        current == IF attention_score # <<>> THEN attention_score[1]
                   ELSE IF row = <<>> THEN FullScore ELSE row[1].attention_score
    IN [total_words |-> new_words, total_submissions |-> new_subs,
        survey_rounds |-> new_rounds,
        priority_eligible |-> (new_words >= 500 \/ new_rounds >= 3),
        attention_score |-> current]

\* the columns _update_participant_stats_internal writes
NewParticipantStats(row, word_count, is_survey, attention_score) ==
    LET new_words == IF row = <<>> THEN word_count ELSE row[1].total_words + word_count
        new_subs == IF row = <<>> THEN 1 ELSE row[1].total_submissions + 1
        new_rounds == (IF row = <<>> THEN 0 ELSE row[1].survey_rounds)
                      + (IF is_survey THEN 1 ELSE 0)
        current == IF attention_score # <<>> THEN attention_score[1]
                   ELSE IF row = <<>> THEN FullScore ELSE row[1].attention_score
    IN [total_words |-> new_words, total_submissions |-> new_subs,
        survey_rounds |-> new_rounds,
        priority_eligible |-> (new_words >= 500 \/ new_rounds >= 3)
                              /\ ScoreGe(current, Score(3, 4)),
        attention_score |-> current]

-----------------------------------------------------------------------------
(* Pure parts of the reward lottery, in hundredths *)

selection_probability(priority_eligible, attention_score) ==
    LET base_probability == 5
        priority_boost == IF priority_eligible THEN 10 ELSE 0
        attention_penalty == IF ScoreGe(attention_score, Score(3, 4)) THEN 0 ELSE -15
        sum == base_probability + priority_boost + attention_penalty
    IN IF sum > 1 THEN sum ELSE 1

-----------------------------------------------------------------------------
(* Request contexts and transactions *)

NoLocals == [stats |-> <<>>, current_attention_score |-> <<>>, ps_row |-> <<>>,
             txstart |-> NULL, priority_eligible |-> FALSE, attention_score |-> <<>>,
             consent_row |-> <<>>, participant_row |-> <<>>]

NoWrites == [images |-> {}, submission |-> <<>>, attention_stats |-> <<>>]

NoResp == [kind |-> "none"]

\* a row key is free for r when no other open transaction wrote it
Free(key, r) == \A q \in Reqs \ {r} : key \notin held[q]

Idle(r) == pc[r] = "idle"

\* request contexts are interchangeable: a request takes the first free one
FirstFree(r) == Idle(r) /\ (r = "r2" => ~Idle("r1"))

NoArg == [op |-> "none"]

InFlightSubmits == Cardinality({r \in Reqs : arg[r].op = "submit"})

Init ==
    /\ now = 0
    /\ participants = <<>>
    /\ consent_records = {}
    /\ payments = <<>>
    /\ images = PopulatedImages
    /\ attention_stats = <<>>
    /\ participant_stats = <<>>
    /\ submissions = EmptyBag
    /\ reward_winners = <<>>
    /\ pc = [r \in Reqs |-> "idle"]
    /\ arg = [r \in Reqs |-> NoArg]
    /\ loc = [r \in Reqs |-> NoLocals]
    /\ wr = [r \in Reqs |-> NoWrites]
    /\ held = [r \in Reqs |-> {}]
    /\ resp = NoResp
    /\ draws = [p \in Participants |-> <<>>]

\* end of a request: the response goes out and the session is closed, which
\* drops whatever the transaction has not committed
Return(r, call, response) ==
    /\ pc' = [pc EXCEPT ![r] = "idle"]
    /\ arg' = [arg EXCEPT ![r] = NoArg]
    /\ loc' = [loc EXCEPT ![r] = NoLocals]
    /\ wr' = [wr EXCEPT ![r] = NoWrites]
    /\ held' = [held EXCEPT ![r] = {}]
    /\ resp' = response @@ [op |-> call.op, pid |-> call.pid]

\* the handler goes on to its next statement
Goto(r, label) ==
    /\ pc' = [pc EXCEPT ![r] = label]
    /\ resp' = NoResp
    /\ UNCHANGED arg

\* the first statement of a handler
Begin(r, call, label, locals) ==
    /\ pc' = [pc EXCEPT ![r] = label]
    /\ arg' = [arg EXCEPT ![r] = call]
    /\ loc' = [loc EXCEPT ![r] = locals]
    /\ resp' = NoResp
    /\ UNCHANGED <<wr, held>>

-----------------------------------------------------------------------------
(* Registration, consent and payment: each handler is one transaction *)

NewParticipant(p) ==
    [consent_given |-> p \in consent_records, payment_status |-> "none"]

create_participant(p) ==
    /\ participants' = IF p \in DOMAIN participants THEN participants
                       ELSE Upsert(participants, p, NewParticipant(p))
    /\ UNCHANGED <<now, consent_records, payments, images, attention_stats,
                   participant_stats, submissions, reward_winners, pc, arg, loc,
                   wr, held, draws>>
    /\ resp' = NoResp

record_consent(p) ==
    /\ participants' = IF p \in DOMAIN participants
                       THEN [participants EXCEPT ![p].consent_given = TRUE]
                       ELSE participants
    /\ consent_records' = consent_records \cup {p}
    /\ UNCHANGED <<now, payments, images, attention_stats, participant_stats,
                   submissions, reward_winners, pc, arg, loc, wr, held, draws>>
    /\ resp' = NoResp

-----------------------------------------------------------------------------
(* create_participant and record_consent as concurrent requests.  The INSERT of
   a participant_id waits for an uncommitted INSERT of the same id and is
   refused once that one is committed. *)

\* no duplicate is ever noticed
ParticipantConflictNever(p) == FALSE

\* the unique key of participants: a second row for p is refused
ParticipantConflict(p) == p \in DOMAIN participants

\* INSERT INTO participants
create_participant_insert(r, p) ==
    /\ FirstFree(r)
    /\ Free(<<"participants", p>>, r)
    /\ LET call == [op |-> "create_participant", pid |-> p]
       IN IF ParticipantConflict(p)
          THEN Return(r, call, [kind |-> "Conflict", code |-> 409])
          ELSE /\ pc' = [pc EXCEPT ![r] = "c_consent"]
               /\ arg' = [arg EXCEPT ![r] = call]
               /\ held' = [held EXCEPT ![r] = {<<"participants", p>>}]
               /\ resp' = NoResp
               /\ UNCHANGED <<loc, wr>>
    /\ UNCHANGED <<now, tables, draws>>

\* the check for an existing consent record
create_participant_consent(r) ==
    /\ pc[r] = "c_consent"
    /\ loc' = [loc EXCEPT ![r].consent_row =
                  IF arg[r].pid \in consent_records THEN <<TRUE>> ELSE <<>>]
    /\ Goto(r, "c_commit")
    /\ UNCHANGED <<now, tables, wr, held, draws>>

\* the UPDATE for a consent found and the commit
create_participant_commit(r) ==
    /\ pc[r] = "c_commit"
    /\ participants' = Upsert(participants, arg[r].pid,
                          [NewParticipant(arg[r].pid) EXCEPT
                              !.consent_given = loc[r].consent_row # <<>>])
    /\ Return(r, arg[r], [kind |-> "created", code |-> 201])
    /\ UNCHANGED <<now, consent_records, payments, images, attention_stats,
                   participant_stats, submissions, reward_winners, draws>>

\* record_consent looks for the participant
record_consent_read(r, p) ==
    /\ FirstFree(r)
    /\ Begin(r, [op |-> "record_consent", pid |-> p], "k_write",
             [NoLocals EXCEPT !.participant_row =
                 IF p \in DOMAIN participants THEN <<p>> ELSE <<>>])
    /\ UNCHANGED <<now, tables, draws>>

\* the UPDATE of a participant found, the consent_records upsert and the commit
record_consent_commit(r) ==
    /\ pc[r] = "k_write"
    /\ participants' = IF loc[r].participant_row # <<>>
                       THEN [participants EXCEPT ![arg[r].pid].consent_given = TRUE]
                       ELSE participants
    /\ consent_records' = consent_records \cup {arg[r].pid}
    /\ Return(r, arg[r], [kind |-> "success", code |-> 200])
    /\ UNCHANGED <<now, payments, images, attention_stats, participant_stats,
                   submissions, reward_winners, draws>>

\* the payments row INSERT INTO payments makes (created_at by its default)
NewOrder(p, o, created_at) ==
    [participant_id |-> p, order_id |-> o, status |-> "created",
     payment_id |-> "", signature |-> <<>>, created_at |-> created_at,
     paid_at |-> NULL]

\* the signature the gateway computes over an order id and a payment id
Sign(order_id, payment_id) == <<"hmac", order_id, payment_id>>

LatestOrder(p) ==
    LET rows == RowsOf(payments, p)
    IN IF rows = {} THEN <<>>
       ELSE <<payments[CHOOSE i \in rows : \A j \in rows : j <= i]>>

create_order(p) ==
    /\ p \in DOMAIN participants
    /\ LET existing == LatestOrder(p)
       IN IF existing # <<>> /\ existing[1].status # "paid"
          THEN UNCHANGED payments
          ELSE \E o \in OrderIds :
                  /\ \A i \in DOMAIN payments : payments[i].order_id # o
                  /\ payments' = Append(payments,
                         NewOrder(p, o, now))
    /\ UNCHANGED <<now, participants, consent_records, images, attention_stats,
                   participant_stats, submissions, reward_winners, pc, arg, loc,
                   wr, held, draws>>
    /\ resp' = NoResp

\* a correctly signed verification of order o
verify_payment(o, payment_id) ==
    /\ payments' = [i \in DOMAIN payments |->
                      IF payments[i].order_id = o
                      THEN [payments[i] EXCEPT !.status = "paid",
                                               !.payment_id = payment_id,
                                               !.signature = Sign(o, payment_id),
                                               !.paid_at = now]
                      ELSE payments[i]]
    /\ participants' = [p \in DOMAIN participants |->
                          IF \E i \in DOMAIN payments :
                                 /\ payments[i].order_id = o
                                 /\ payments[i].participant_id = p
                          THEN [participants[p] EXCEPT !.payment_status = "paid"]
                          ELSE participants[p]]
    /\ UNCHANGED <<now, consent_records, images, attention_stats, participant_stats,
                   submissions, reward_winners, pc, arg, loc, wr, held, draws>>
    /\ resp' = NoResp

-----------------------------------------------------------------------------
(* The payment handlers as concurrent requests.  An UPDATE locks the rows it
   changes until its transaction ends and reads them under that lock, so the
   statements of verify_payment and payment_webhook take effect together at
   the commit; CURRENT_TIMESTAMP is the time the transaction began. *)

OrdersOf(p) == {payments[i] : i \in RowsOf(payments, p)}

UnpaidOrders(p) == {row \in OrdersOf(p) : row.status # "paid"}

PaidOrders(p) == {row \in OrdersOf(p) : row.status = "paid"}

OrderRows(o) == {i \in DOMAIN payments : payments[i].order_id = o}

\* ORDER BY created_at DESC LIMIT 1: any of the rows created last
LatestOrders(p) ==
    {row \in OrdersOf(p) : \A other \in OrdersOf(p) : other.created_at <= row.created_at}

InFlightOrders == Cardinality({r \in Reqs : pc[r] = "o_insert"})

\* the reads of create_order: the participant, then the latest order
create_order_read(r, p) ==
    /\ FirstFree(r)
    /\ LET call == [op |-> "create_order", pid |-> p]
       IN IF p \notin DOMAIN participants
          THEN Return(r, call, [kind |-> "NotFound", code |-> 400])
          ELSE \/ \E existing \in LatestOrders(p) :
                     /\ existing.status # "paid"
                     /\ Return(r, call, [kind |-> "order", code |-> 200,
                                         order_id |-> existing.order_id])
               \/ /\ \/ LatestOrders(p) = {}
                     \/ \E existing \in LatestOrders(p) : existing.status = "paid"
                  /\ Len(payments) + InFlightOrders < Cardinality(GatewayOrderIds)
                  /\ Begin(r, call, "o_insert", [NoLocals EXCEPT !.txstart = now])
    /\ UNCHANGED <<now, tables, draws>>

\* the gateway has made order o: INSERT INTO payments and commit
create_order_insert(r, o) ==
    /\ pc[r] = "o_insert"
    /\ OrderRows(o) = {}
    /\ payments' = Append(payments, NewOrder(arg[r].pid, o, loc[r].txstart))
    /\ Return(r, arg[r], [kind |-> "order", code |-> 200, order_id |-> o])
    /\ UNCHANGED <<now, participants, consent_records, images, attention_stats,
                   participant_stats, submissions, reward_winners, draws>>

\* the gateway refuses to make an order
create_order_gateway_fails(r) ==
    /\ pc[r] = "o_insert"
    /\ Return(r, arg[r], [kind |-> "Failed to create payment order", code |-> 500])
    /\ UNCHANGED <<now, tables, draws>>

\* a signature check that accepts every signature
verify_payment_signature_skipped(data) == TRUE

\* client.utility.verify_payment_signature
verify_payment_signature(data) ==
    data.signature = Sign(data.order_id, data.payment_id)

\* no propagation of the payment to the participant
MarkParticipantPaidSkipped(o) == participants

\* UPDATE participants SET payment_status = 'paid' for the owner of order o
MarkParticipantPaid(o) ==
    [p \in DOMAIN participants |->
        IF \E i \in OrderRows(o) : payments[i].participant_id = p
        THEN [participants[p] EXCEPT !.payment_status = "paid"]
        ELSE participants[p]]

\* the payments rows after the UPDATE of the rows in hit
MarkOrdersPaid(hit, data, at) ==
    [i \in DOMAIN payments |->
        IF i \in hit
        THEN [payments[i] EXCEPT !.status = "paid", !.payment_id = data.payment_id,
                                 !.signature = IF "signature" \in DOMAIN data
                                               THEN data.signature ELSE @,
                                 !.paid_at = at]
        ELSE payments[i]]

VerifyCall(data) ==
    [op |-> "verify", pid |-> "", order_id |-> data.order_id,
     payment_id |-> data.payment_id, signature |-> data.signature]

\* verify_payment up to the signature check
verify_payment_begin(r, data) ==
    /\ FirstFree(r)
    /\ IF verify_payment_signature(data)
       THEN Begin(r, VerifyCall(data), "v_commit", [NoLocals EXCEPT !.txstart = now])
       ELSE Return(r, VerifyCall(data),
                   [kind |-> "InvalidSignature", code |-> 400] @@ data)
    /\ UNCHANGED <<now, tables, draws>>

\* the two UPDATEs of verify_payment and the commit
verify_payment_commit(r) ==
    /\ pc[r] = "v_commit"
    /\ payments' = MarkOrdersPaid(OrderRows(arg[r].order_id), arg[r], loc[r].txstart)
    /\ participants' = MarkParticipantPaid(arg[r].order_id)
    /\ Return(r, arg[r], [kind |-> "verified", code |-> 200,
                          order_id |-> arg[r].order_id,
                          payment_id |-> arg[r].payment_id,
                          signature |-> arg[r].signature])
    /\ UNCHANGED <<now, consent_records, images, attention_stats, participant_stats,
                   submissions, reward_winners, draws>>

\* the signature the gateway puts on a webhook body
SignWebhook(body) == <<"hmac", body.event, body.order_id, body.payment_id>>

\* client.utility.verify_webhook_signature
verify_webhook_signature(body, signature) == signature = SignWebhook(body)

\* the WHERE clause without the condition on the status
WebhookMatchesAnyStatus(row, order_id) == row.order_id = order_id

\* the WHERE clause of the webhook's UPDATE payments
WebhookMatches(row, order_id) == row.order_id = order_id /\ row.status # "paid"

\* an answer that reports a delivery that changed nothing as a conflict
WebhookResponseConflict(rowcount) ==
    IF rowcount = 0 THEN [kind |-> "Conflict", code |-> 409]
    ELSE [kind |-> "ok", code |-> 200]

\* what payment_webhook answers once the signature is verified
WebhookResponse(rowcount) == [kind |-> "ok", code |-> 200]

WebhookCall(body, signature) ==
    [op |-> "webhook", pid |-> "", event |-> body.event, order_id |-> body.order_id,
     payment_id |-> body.payment_id, signature |-> signature]

\* payment_webhook up to the look at the event
payment_webhook_begin(r, body, signature) ==
    /\ FirstFree(r)
    /\ LET call == WebhookCall(body, signature)
       IN IF ~verify_webhook_signature(body, signature)
          THEN Return(r, call, [kind |-> "InvalidSignature", code |-> 400] @@ call)
          ELSE IF body.event # "payment.captured"
          THEN Return(r, call, WebhookResponse(0) @@ [rowcount |-> 0] @@ call)
          ELSE Begin(r, call, "w_commit", [NoLocals EXCEPT !.txstart = now])
    /\ UNCHANGED <<now, tables, draws>>

\* the conditional UPDATE of the webhook and, when it changed a row, the
\* UPDATE of the participant and the commit
payment_webhook_commit(r) ==
    /\ pc[r] = "w_commit"
    /\ LET hit == {i \in DOMAIN payments : WebhookMatches(payments[i], arg[r].order_id)}
           rowcount == Cardinality(hit)
           data == [payment_id |-> arg[r].payment_id]
       IN /\ IF rowcount > 0
             THEN /\ payments' = MarkOrdersPaid(hit, data, loc[r].txstart)
                  /\ participants' = MarkParticipantPaid(arg[r].order_id)
             ELSE UNCHANGED <<payments, participants>>
          /\ Return(r, arg[r], WebhookResponse(rowcount)
                                  @@ [rowcount |-> rowcount] @@ arg[r])
    /\ UNCHANGED <<now, consent_records, images, attention_stats, participant_stats,
                   submissions, reward_winners, draws>>

-----------------------------------------------------------------------------
(* submit: one action per statement that reads or locks shared rows *)

IsFlagged(p) == p \in DOMAIN attention_stats /\ attention_stats[p].is_flagged

SubmissionRow(p, pl, snapshot) ==
    [participant_id |-> p, image_id |-> pl.image_id, word_count |-> pl.word_count,
     rating |-> pl.rating, time_spent_seconds |-> pl.time_spent,
     is_survey |-> pl.is_survey, is_attention |-> IsAttention(pl),
     attention_passed |-> AttentionPassed(pl), too_fast_flag |-> TooFast(pl),
     attention_score_at_submission |-> snapshot,
     quality_score |-> calculate_quality_score(pl.word_count, AttentionPassed(pl),
                                               pl.time_spent, pl.feedback_len)]

\* the flag check opens the request's transaction
submit_flag_check(r, p, pl) ==
    /\ FirstFree(r)
    /\ LET call == [op |-> "submit", pid |-> p, payload |-> pl]
       IN IF IsFlagged(p)
          THEN Return(r, call, [kind |-> "Flagged", code |-> 403])
          ELSE Begin(r, call, "s_gate", NoLocals)
    /\ UNCHANGED <<now, tables, draws>>

submit_gate(r) ==
    /\ pc[r] = "s_gate"
    /\ LET gate == AdmissionGate(arg[r].pid)
           valid == ValidatePayload(arg[r].payload)
       IN IF gate # "admit"
          THEN Return(r, arg[r], [kind |-> gate,
                                  code |-> IF gate = "NotFound" THEN 400 ELSE 403])
          ELSE IF valid # "ok"
          THEN Return(r, arg[r], [kind |-> "ValidationFailed", code |-> 400,
                                  error |-> valid])
          ELSE Goto(r, "s_insert") /\ UNCHANGED <<loc, wr, held>>
    /\ UNCHANGED <<now, tables, draws>>

\* the images row is added when missing (ON CONFLICT DO NOTHING waits for a
\* concurrent insert of the same id), the attention score is read for the
\* snapshot and the submission is inserted
submit_insert(r) ==
    /\ pc[r] = "s_insert"
    /\ LET p == arg[r].pid
           pl == arg[r].payload
           id == pl.image_id
           snapshot == IF ~IsAttention(pl) THEN <<>>
                       ELSE IF p \in DOMAIN attention_stats
                            THEN attention_stats[p].attention_score
                            ELSE FullScore
       IN /\ IF id \in images
             THEN /\ wr' = [wr EXCEPT ![r].submission =
                               <<SubmissionRow(p, pl, snapshot)>>]
                  /\ UNCHANGED held
             ELSE /\ Free(<<"images", id>>, r)
                  /\ wr' = [wr EXCEPT ![r].images = {id},
                                      ![r].submission =
                                          <<SubmissionRow(p, pl, snapshot)>>]
                  /\ held' = [held EXCEPT ![r] = @ \cup {<<"images", id>>}]
          /\ Goto(r, IF IsAttention(pl) THEN "s_as_read" ELSE "s_ps_read")
    /\ UNCHANGED <<now, tables, loc, draws>>

submit_attention_read(r) ==
    /\ pc[r] = "s_as_read"
    /\ LET p == arg[r].pid
       IN loc' = [loc EXCEPT ![r].stats =
                     IF p \in DOMAIN attention_stats THEN <<attention_stats[p]>>
                     ELSE <<>>]
    /\ Goto(r, "s_as_write")
    /\ UNCHANGED <<now, tables, wr, held, draws>>

submit_attention_write(r) ==
    /\ pc[r] = "s_as_write"
    /\ Free(<<"attention_stats", arg[r].pid>>, r)
    /\ LET new == NewAttentionStats(loc[r].stats,
                                    AttentionPassed(arg[r].payload) = "TRUE")
       IN /\ wr' = [wr EXCEPT ![r].attention_stats = <<new>>]
          /\ loc' = [loc EXCEPT ![r].current_attention_score = <<new.attention_score>>]
    /\ held' = [held EXCEPT ![r] = @ \cup {<<"attention_stats", arg[r].pid>>}]
    /\ Goto(r, "s_ps_read")
    /\ UNCHANGED <<now, tables, draws>>

\* the submission insert or an attention_stats statement raises: the
\* handler rolls back and answers 500
submit_statement_fails(r) ==
    /\ pc[r] \in {"s_insert", "s_as_read", "s_as_write"}
    /\ Return(r, arg[r], [kind |-> "Failed to save submission", code |-> 500])
    /\ UNCHANGED <<now, tables, draws>>

submit_stats_read(r) ==
    /\ pc[r] = "s_ps_read"
    /\ LET p == arg[r].pid
       IN loc' = [loc EXCEPT ![r].ps_row =
                     IF p \in DOMAIN participant_stats THEN <<participant_stats[p]>>
                     ELSE <<>>]
    /\ Goto(r, "s_ps_write")
    /\ UNCHANGED <<now, tables, wr, held, draws>>

\* values of the participant_stats columns an INSERT leaves out
DefaultStats ==
    [total_words |-> 0, total_submissions |-> 0, survey_rounds |-> 0,
     priority_eligible |-> FALSE, attention_score |-> FullScore,
     last_reward_attempt_at |-> NULL]

\* an upsert that replaces the row: the columns w leaves out get their defaults
UpsertParticipantStatsReplace(table, p, w) ==
    Upsert(table, p,
           [k \in DOMAIN DefaultStats |->
              IF k \in DOMAIN w THEN w[k] ELSE DefaultStats[k]])

\* ON CONFLICT(participant_id) DO UPDATE of the columns w names
UpsertParticipantStats(table, p, w) ==
    Upsert(table, p,
           [k \in DOMAIN DefaultStats |->
              IF k \in DOMAIN w THEN w[k]
              ELSE IF p \in DOMAIN table THEN table[p][k]
              ELSE DefaultStats[k]])

\* what the final db.commit() of submit makes visible
CommitSubmission(r, p, stats_row) ==
    /\ images' = images \cup wr[r].images
    /\ submissions' = submissions (+) SetToBag({wr[r].submission[1]})
    /\ attention_stats' = IF wr[r].attention_stats = <<>> THEN attention_stats
                          ELSE Upsert(attention_stats, p, wr[r].attention_stats[1])
    /\ participant_stats' = UpsertParticipantStats(participant_stats, p, stats_row)

OkResponse(pl) ==
    [kind |-> "ok", code |-> 200, word_count |-> pl.word_count,
     attention_passed |-> AttentionPassed(pl),
     quality_score |-> calculate_quality_score(pl.word_count, AttentionPassed(pl),
                                               pl.time_spent, pl.feedback_len)]

\* the participant_stats upsert and the single commit of the transaction
submit_stats_commit(r) ==
    /\ pc[r] = "s_ps_write"
    /\ CommitSubmission(r, arg[r].pid,
           NewParticipantStats(loc[r].ps_row, arg[r].payload.word_count,
                               arg[r].payload.is_survey,
                               loc[r].current_attention_score))
    /\ Return(r, arg[r], OkResponse(arg[r].payload))
    /\ UNCHANGED <<now, participants, consent_records, payments, reward_winners,
                   draws>>

\* a participant_stats statement raises: the helper swallows the exception,
\* the database has aborted the transaction, so the commit that follows is a
\* rollback, and the handler answers ok
submit_stats_fails(r) ==
    /\ pc[r] \in {"s_ps_read", "s_ps_write"}
    /\ Return(r, arg[r], OkResponse(arg[r].payload))
    /\ UNCHANGED <<now, tables, draws>>

-----------------------------------------------------------------------------
(* select_reward_winner *)

\* reward_winners without a unique key: no insert is refused
WinnerConflictNever(p) == FALSE

\* the unique key of reward_winners: a second row for p is refused
WinnerConflict(p) == RowsOf(reward_winners, p) # {}

\* the foreign key of participant_stats: a row needs its participants row
ForeignKeyViolation(p) == p \notin DOMAIN participants

LastTwo(seq) == IF Len(seq) > 2 THEN Tail(seq) ELSE seq

\* a call that goes on to the cooldown check without the winner check
select_without_winner_check(r, p) ==
    /\ FirstFree(r)
    /\ Begin(r, [op |-> "select", pid |-> p], "l_cooldown",
             [NoLocals EXCEPT !.txstart = now])
    /\ UNCHANGED <<now, tables, draws>>

\* the winner check opens the transaction: CURRENT_TIMESTAMP is its start
select_check_winner(r, p) ==
    /\ FirstFree(r)
    /\ LET call == [op |-> "select", pid |-> p]
       IN IF RowsOf(reward_winners, p) # {}
          THEN Return(r, call, [kind |-> "already_winner", selected |-> FALSE,
                                already_winner |-> TRUE])
          ELSE Begin(r, call, "l_cooldown", [NoLocals EXCEPT !.txstart = now])
    /\ UNCHANGED <<now, tables, draws>>

LastAttempt(p) ==
    IF p \in DOMAIN participant_stats
    THEN participant_stats[p].last_reward_attempt_at
    ELSE NULL

\* the cooldown test ending one second early
CooldownActiveShort(last) == last # NULL /\ now - last < cooldown_seconds - 1

\* the cooldown test still active at exactly cooldown_seconds
CooldownActiveInclusive(last) == last # NULL /\ now - last <= cooldown_seconds

CooldownActive(last) == last # NULL /\ now - last < cooldown_seconds

\* the seconds elapsed in place of the seconds left
RetryAfterElapsed(last) == now - last

\* retry_after: cooldown_seconds - int(time_since_last)
RetryAfter(last) == cooldown_seconds - (now - last)

\* priority_eligible as the handler takes it from the row it has read
PriorityFromRow(last) == last # NULL

select_check_cooldown(r) ==
    /\ pc[r] = "l_cooldown"
    /\ LET last == LastAttempt(arg[r].pid)
       IN IF CooldownActive(last)
          THEN Return(r, arg[r], [kind |-> "cooldown", selected |-> FALSE,
                                  cooldown_active |-> TRUE,
                                  retry_after |-> RetryAfter(last)])
          ELSE /\ loc' = [loc EXCEPT ![r].priority_eligible = PriorityFromRow(last)]
               /\ Goto(r, "l_score")
               /\ UNCHANGED <<wr, held>>
    /\ UNCHANGED <<now, tables, draws>>

select_read_score(r) ==
    /\ pc[r] = "l_score"
    /\ LET p == arg[r].pid
       IN loc' = [loc EXCEPT ![r].attention_score =
                     IF p \in DOMAIN participant_stats
                     THEN participant_stats[p].attention_score
                     ELSE FullScore]
    /\ Goto(r, "l_stamp")
    /\ UNCHANGED <<now, tables, wr, held, draws>>

\* a winner row that is already paid out
NewWinnerPaid(p) ==
    [participant_id |-> p, reward_amount |-> 10, status |-> "paid"]

\* the row INSERT INTO reward_winners makes
NewWinner(p) ==
    [participant_id |-> p, reward_amount |-> reward_amount, status |-> "pending"]

\* the stamp upsert, the draw u and the commit (with the winner insert when
\* the draw wins); a refused statement rolls the transaction back
select_stamp_and_draw(r, u) ==
    /\ pc[r] = "l_stamp"
    /\ LET p == arg[r].pid
           prob == selection_probability(loc[r].priority_eligible,
                                         loc[r].attention_score)
           stamped == UpsertParticipantStats(participant_stats, p,
                          [last_reward_attempt_at |-> loc[r].txstart])
       IN IF ForeignKeyViolation(p)
          THEN /\ UNCHANGED <<participant_stats, reward_winners, draws>>
               /\ Return(r, arg[r], [kind |-> "error", selected |-> FALSE])
          ELSE /\ draws' = [draws EXCEPT ![p] =
                               LastTwo(Append(@, [at |-> now, probability |-> prob]))]
               /\ IF u < prob
                  THEN IF WinnerConflict(p)
                       THEN /\ UNCHANGED <<participant_stats, reward_winners>>
                            /\ Return(r, arg[r], [kind |-> "error",
                                                  selected |-> FALSE])
                       ELSE /\ participant_stats' = stamped
                            /\ reward_winners' = Append(reward_winners, NewWinner(p))
                            /\ Return(r, arg[r], [kind |-> "selected",
                                                  selected |-> TRUE,
                                                  reward_amount |-> reward_amount])
                  ELSE /\ participant_stats' = stamped
                       /\ UNCHANGED reward_winners
                       /\ Return(r, arg[r],
                                 [kind |-> "not_selected", selected |-> FALSE,
                                  priority_eligible |-> loc[r].priority_eligible])
    /\ UNCHANGED <<now, participants, consent_records, payments, images,
                   attention_stats, submissions>>

Tick(d) ==
    /\ now + d <= MaxTime
    /\ now' = now + d
    /\ resp' = NoResp
    /\ UNCHANGED <<tables, pc, arg, loc, wr, held, draws>>

-----------------------------------------------------------------------------
(* The submission engine: registration, consent, payment and submit *)

SubmitCap(max) == BagCardinality(submissions) + InFlightSubmits < max

Registration ==
    \/ \E p \in Participants : create_participant(p)
    \/ \E p \in Participants : record_consent(p)
    \/ \E p \in Participants : create_order(p)
    \/ \E o \in OrderIds : verify_payment(o, "pay_1")

SubmitSteps ==
    \/ \E r \in Reqs : submit_gate(r)
    \/ \E r \in Reqs : submit_insert(r)
    \/ \E r \in Reqs : submit_attention_read(r)
    \/ \E r \in Reqs : submit_attention_write(r)
    \/ \E r \in Reqs : submit_stats_read(r)
    \/ \E r \in Reqs : submit_stats_commit(r)

Next ==
    \/ Registration
    \/ \E r \in Reqs, p \in Participants, pl \in Payloads :
           SubmitCap(MaxSubmissions) /\ submit_flag_check(r, p, pl)
    \/ SubmitSteps
    \/ \E r \in Reqs : submit_statement_fails(r)
    \/ \E r \in Reqs : submit_stats_fails(r)

Spec == Init /\ [][Next]_vars

(* The reward lottery beside the submissions that build the statistics *)

NextReward ==
    \/ Registration
    \/ \E r \in Reqs, p \in Participants, pl \in RewardPayloads :
           SubmitCap(MaxRewardSubmissions) /\ submit_flag_check(r, p, pl)
    \/ SubmitSteps
    \/ \E r \in Reqs, p \in Participants : select_check_winner(r, p)
    \/ \E r \in Reqs : select_check_cooldown(r)
    \/ \E r \in Reqs : select_read_score(r)
    \/ \E r \in Reqs, u \in RandomValues : select_stamp_and_draw(r, u)
    \/ \E d \in TickSteps : Tick(d)

SpecReward == Init /\ [][NextReward]_vars

(* Registration and consent as concurrent requests, beside the payment *)

NextRegistration ==
    \/ \E r \in Reqs, p \in RegistrationIds : create_participant_insert(r, p)
    \/ \E r \in Reqs : create_participant_consent(r)
    \/ \E r \in Reqs : create_participant_commit(r)
    \/ \E r \in Reqs, p \in RegistrationIds : record_consent_read(r, p)
    \/ \E r \in Reqs : record_consent_commit(r)
    \/ \E p \in Participants : create_order(p)
    \/ \E o \in OrderIds : verify_payment(o, "pay_1")

SpecRegistration == Init /\ [][NextRegistration]_vars

(* The quality scorer applied to the signals of a submission *)

QualityWordCounts == {0, 1, 59, 60, 149, 150, 151, 500}
QualityOutcomes == {"TRUE", "FALSE", "NULL"}
QualityTimes == {NULL, 0, 1, 4, 5, 60}
QualityFeedbackLens == {0, 5, 49, 50, 51}

score_submission(word_count, attention_passed, time_spent, feedback_len) ==
    /\ resp' = [kind |-> "quality", word_count |-> word_count,
                attention_passed |-> attention_passed, time_spent |-> time_spent,
                feedback_len |-> feedback_len,
                too_fast_flag |-> TooFast([time_spent |-> time_spent]),
                time_score |-> time_score(time_spent),
                quality_score |-> calculate_quality_score(word_count,
                                     attention_passed, time_spent, feedback_len)]
    /\ UNCHANGED <<now, tables, pc, arg, loc, wr, held, draws>>

NextQuality ==
    \E word_count \in QualityWordCounts, attention_passed \in QualityOutcomes,
       time_spent \in QualityTimes, feedback_len \in QualityFeedbackLens :
        score_submission(word_count, attention_passed, time_spent, feedback_len)

SpecQuality == Init /\ [][NextQuality]_vars

(* Submissions on images with an active check, an inactive one and none *)

MaxCatalogSubmissions == 2

CatalogPayloads ==
    { [BasePayload EXCEPT !.image_id = "new"],
      [BasePayload EXCEPT !.image_id = "attn_off", !.mention = "word"],
      [BasePayload EXCEPT !.image_id = "attn", !.mention = "word"] }

NextCatalog ==
    \/ Registration
    \/ \E r \in Reqs, p \in Participants, pl \in CatalogPayloads :
           SubmitCap(MaxCatalogSubmissions) /\ submit_flag_check(r, p, pl)
    \/ SubmitSteps

SpecCatalog == Init /\ [][NextCatalog]_vars

(* The attention match of submit applied to descriptions and expected terms,
   both kept as sequences of characters *)

MaxDescriptionLen == 4
MaxTermLen == 2
Characters == {"a", "A", "b", " "}

Strings(n) == UNION {[1..k -> Characters] : k \in 0..n}

\* str.lower()
Lower(s) == [i \in DOMAIN s |-> IF s[i] = "A" THEN "a" ELSE s[i]]

\* str.strip()
RECURSIVE Strip(_)
Strip(s) ==
    IF s = <<>> THEN s
    ELSE IF Head(s) = " " THEN Strip(Tail(s))
    ELSE IF s[Len(s)] = " " THEN Strip(SubSeq(s, 1, Len(s) - 1))
    ELSE s

\* t occurs in s from position i on
OccursAt(t, s, i) ==
    /\ i + Len(t) - 1 <= Len(s)
    /\ \A k \in 1..Len(t) : s[i + k - 1] = t[k]

\* expected_word in description_lower
Contains(t, s) == \E i \in 1..(Len(s) + 1) : OccursAt(t, s, i)

\* position i of s holds a character of a word
WordCharAt(s, i) == i \in 1..Len(s) /\ s[i] # " "

\* the regular expression's \b just before position i of s
WordBoundary(s, i) == WordCharAt(s, i - 1) # WordCharAt(s, i)

\* the strict match taking the term anywhere
SearchWholeWordAnywhere(t, s) == \E i \in 1..(Len(s) + 1) : OccursAt(t, s, i)

\* re.search(rf"\b{re.escape(expected_word)}\b", description_lower)
SearchWholeWord(t, s) ==
    \E i \in 1..(Len(s) + 1) :
        /\ WordBoundary(s, i)
        /\ OccursAt(t, s, i)
        /\ WordBoundary(s, i + Len(t))

\* attention_passed of a submission on an image with an active check
match_expected_word(expected_word, strict, description) ==
    LET term == Lower(Strip(expected_word))
        description_lower == Lower(description)
    IN IF strict THEN SearchWholeWord(term, description_lower)
       ELSE Contains(term, description_lower)

\* submit takes the description stripped
check_attention(expected_word, strict, text) ==
    /\ resp' = [kind |-> "attention", expected_word |-> expected_word,
                strict |-> strict, description |-> Strip(text),
                attention_passed |->
                    match_expected_word(expected_word, strict, Strip(text))]
    /\ UNCHANGED <<now, tables, pc, arg, loc, wr, held, draws>>

\* the match carries nothing from one submission to the next: a behaviour
\* holds one check
NextAttention ==
    /\ resp = NoResp
    /\ \E expected_word \in Strings(MaxTermLen) \ {<<>>}, strict \in BOOLEAN,
          text \in Strings(MaxDescriptionLen) :
           check_attention(expected_word, strict, text)

SpecAttention == Init /\ [][NextAttention]_vars

(* The payment gateway adapter beside registration *)

VerifyInputs ==
    {[order_id |-> o, payment_id |-> q, signature |-> Sign(o, q)] :
        o \in GatewayOrderIds, q \in PaymentIds}
    \cup {[order_id |-> o, payment_id |-> q, signature |-> <<"forged">>] :
             o \in GatewayOrderIds, q \in PaymentIds}

WebhookBodies ==
    {[event |-> e, order_id |-> o, payment_id |-> q] :
        e \in WebhookEvents, o \in GatewayOrderIds, q \in PaymentIds}

NextPayment ==
    \/ \E p \in Participants : create_participant(p)
    \/ \E r \in Reqs, p \in Participants : create_order_read(r, p)
    \/ \E r \in Reqs, o \in GatewayOrderIds : create_order_insert(r, o)
    \/ \E r \in Reqs : create_order_gateway_fails(r)
    \/ \E r \in Reqs, data \in VerifyInputs : verify_payment_begin(r, data)
    \/ \E r \in Reqs : verify_payment_commit(r)
    \/ \E r \in Reqs, body \in WebhookBodies :
          \E g \in {SignWebhook(body), <<"forged">>} :
              payment_webhook_begin(r, body, g)
    \/ \E r \in Reqs : payment_webhook_commit(r)
    \/ \E d \in TickSteps : Tick(d)

SpecPayment == Init /\ [][NextPayment]_vars

-----------------------------------------------------------------------------
(* Properties of the reward lottery (checked under SpecReward) *)

WinnerRows(p) == Cardinality(RowsOf(reward_winners, p))

\* C1: whatever the sequence or interleaving of select_reward_winner calls,
\* reward_winners never holds more than one row for a participant.
C1_AtMostOneWinnerRow == \A p \in Participants : WinnerRows(p) <= 1

\* a winning draw of a second call was refused because the row exists
C1_Witness ==
    /\ resp.kind = "error"
    /\ resp.op = "select"
    /\ WinnerRows(resp.pid) = 1

StoredPriority(p) ==
    p \in DOMAIN participant_stats /\ participant_stats[p].priority_eligible

StoredScore(p) ==
    IF p \in DOMAIN participant_stats THEN participant_stats[p].attention_score
    ELSE FullScore

LastDraw(p) == draws[p][Len(draws[p])]

\* C2: every draw uses the probability max(0.01, 0.05 + 0.10 if the stored
\* priority_eligible is true - 0.15 if the stored attention_score < 0.75).
C2_DrawUsesStoredPriority ==
    [][\A p \in Participants :
          draws'[p] # draws[p] =>
              LET sum == 5 + (IF StoredPriority(p) THEN 10 ELSE 0)
                           - (IF ScoreLt(StoredScore(p), Score(3, 4)) THEN 15 ELSE 0)
              IN LastDraw(p)'.probability = IF sum > 1 THEN sum ELSE 1]_vars

\* C3 as stated: a call made less than 60 seconds after the stamp of an
\* earlier call returns cooldown_active=true and changes no stored state.
C3_SecondCallIsCooldown ==
    [][(/\ resp'.kind # "none"
        /\ resp'.op = "select"
        /\ LastAttempt(resp'.pid) # NULL
        /\ now - LastAttempt(resp'.pid) < 60)
       => (resp'.kind = "cooldown" /\ tables' = tables)]_vars

\* C3 amended: a call for a participant without a winner row that reads a
\* last_reward_attempt_at less than 60 seconds old returns
\* cooldown_active=true and changes no stored state; a call that finds a
\* winner row returns already_winner=true and changes no stored state.
C3_CooldownBlocksNonWinner ==
    [][\A r \in Reqs :
          /\ (/\ pc[r] = "l_cooldown"
              /\ pc'[r] # "l_cooldown"
              /\ LastAttempt(arg[r].pid) # NULL
              /\ now - LastAttempt(arg[r].pid) < 60)
             => (/\ resp'.kind = "cooldown"
                 /\ resp'.cooldown_active
                 /\ resp'.pid = arg[r].pid
                 /\ pc'[r] = "idle"
                 /\ tables' = tables)
          /\ (resp'.kind = "already_winner" => tables' = tables)]_vars

\* a second call was answered with the cooldown one second before its end
C3_Witness ==
    /\ resp.kind = "cooldown"
    /\ resp.retry_after = 1
    /\ WinnerRows(resp.pid) = 0

\* C4: for one participant no two random draws happen less than 60 seconds
\* apart, whatever the interleaving of the calls.
C4_DrawsSixtySecondsApart ==
    \A p \in Participants :
        Len(draws[p]) = 2 => draws[p][2].at - draws[p][1].at >= 60

-----------------------------------------------------------------------------
(* Properties of submit (checked under Spec) *)

Returning(r) == pc[r] # "idle" /\ pc'[r] = "idle"

SubmissionsOf(p) == {row \in BagToSet(submissions) : row.participant_id = p}

HasPaidAndConsented(p) ==
    /\ p \in DOMAIN participants
    /\ participants[p].payment_status = "paid"
    /\ participants[p].consent_given

C6_NoSubmissionAfterFlag ==
    [][\A p \in Participants :
          IsFlagged(p) =>
              /\ (resp'.kind # "none" /\ resp'.op = "submit" /\ resp'.pid = p
                    /\ (\A r \in Reqs : ~Returning(r))
                  => resp'.kind = "Flagged" /\ resp'.code = 403)
              /\ \A row \in BagToSet(submissions') :
                    row.participant_id = p
                    => CopiesIn(row, submissions') = CopiesIn(row, submissions)]_vars

GateRejections == {"NotFound", "Flagged", "PaymentRequired", "ConsentRequired"}

PayloadInvalid(pl) ==
    \/ pl.image_id = ""
    \/ pl.word_count < 60
    \/ pl.rating = NULL
    \/ pl.rating < 1
    \/ pl.rating > 10
    \/ pl.feedback_len < 5

\* C8: a submit rejected by the gate or by validation leaves participants,
\* submissions, attention_stats, participant_stats and images as they were.
C8_RejectedSubmitChangesNothing ==
    [][/\ (resp'.kind \in GateRejections \cup {"ValidationFailed"})
          => tables' = tables
       /\ \A r \in Reqs :
             (pc[r] = "s_gate" /\ pc'[r] # "s_gate" /\ PayloadInvalid(arg[r].payload))
             => (/\ pc'[r] = "idle"
                 /\ wr'[r] = NoWrites
                 /\ resp'.code \in {400, 403}
                 /\ tables' = tables)]_vars

\* a paying, consenting participant was turned down for a short feedback
\* on an image the images table does not hold
C8_Witness ==
    /\ resp.kind = "ValidationFailed"
    /\ resp.error = "minimum words required"
    /\ HasPaidAndConsented(resp.pid)
    /\ "new" \notin images

\* C9: the submission, its attention_stats update and its participant_stats
\* update become visible together or not at all; when a step fails nothing is
\* committed and the call returns an error.
C9_SubmitAllOrNothing ==
    [][\A r \in Reqs :
          (Returning(r) /\ arg[r].op = "submit" /\ pc[r] # "s_gate")
          => \/ /\ resp'.kind = "ok"
                /\ submissions' = submissions (+) SetToBag({wr[r].submission[1]})
                /\ arg[r].pid \in DOMAIN participant_stats'
                /\ IsAttention(arg[r].payload)
                     => /\ arg[r].pid \in DOMAIN attention_stats'
                        /\ attention_stats'[arg[r].pid] = wr[r].attention_stats[1]
             \/ /\ resp'.code = 500
                /\ tables' = tables]_vars

\* C10: every attention_stats row has total_checks > 0 and attention_score =
\* passed_checks / total_checks; a participant without attention checks has
\* no row and counts as having score 1.0.
C10_AttentionScoreIsQuotient ==
    \A p \in Participants :
        /\ p \in DOMAIN attention_stats
           => /\ attention_stats[p].total_checks > 0
              /\ attention_stats[p].attention_score[1] * attention_stats[p].total_checks
                 = attention_stats[p].passed_checks * attention_stats[p].attention_score[2]
              /\ \E row \in SubmissionsOf(p) : row.is_attention
        /\ p \notin DOMAIN attention_stats
           => /\ \A row \in SubmissionsOf(p) : ~row.is_attention
              /\ p \in DOMAIN participant_stats
                 => participant_stats[p].attention_score = Score(1, 1)
              /\ \A r \in Reqs :
                    (arg[r].op = "submit" /\ arg[r].pid = p
                       /\ wr[r].submission # <<>>
                       /\ wr[r].submission[1].is_attention)
                    => wr[r].submission[1].attention_score_at_submission = Score(1, 1)

\* a participant has passed some but not all of several attention checks
C10_Witness ==
    \E p \in DOMAIN attention_stats :
        /\ attention_stats[p].total_checks >= 2
        /\ attention_stats[p].passed_checks > 0
        /\ attention_stats[p].failed_checks > 0

\* C11: every attention_stats row has is_flagged = (attention_score < 0.6 and
\* total_checks >= 3); no participant with fewer than 3 recorded attention
\* checks is flagged.
C11_FlagIffLowScoreAfterThreeChecks ==
    \A p \in DOMAIN attention_stats :
        LET row == attention_stats[p]
        IN /\ row.is_flagged <=>
                 (/\ 5 * row.attention_score[1] < 3 * row.attention_score[2]
                  /\ row.total_checks >= 3)
           /\ row.total_checks < 3 => ~row.is_flagged

\* a participant was flagged on the third check, after two failures that
\* did not flag
C11_Witness ==
    \E p \in DOMAIN attention_stats :
        /\ attention_stats[p].is_flagged
        /\ attention_stats[p].total_checks = 3

-----------------------------------------------------------------------------
(* Properties of participant_stats (checked under SpecReward) *)

-----------------------------------------------------------------------------
(* Properties of the payment handlers (checked under SpecPayment) *)

OrderStatus(o) == {payments[i].status : i \in OrderRows(o)}

\* C13: of two deliveries of one correctly signed payment.captured webhook,
\* one after the other or at the same time, the first moves the order from
\* created to paid and the participant to paid, and the later one changes no
\* row; a paid order never leaves that status.
C13_ReplayedWebhookChangesNothing ==
    [][/\ \A r \in Reqs :
             (pc[r] = "w_commit" /\ Returning(r))
             => /\ "paid" \in OrderStatus(arg[r].order_id) => tables' = tables
                /\ "created" \in OrderStatus(arg[r].order_id)
                   => \A i \in OrderRows(arg[r].order_id) :
                         /\ payments'[i].status = "paid"
                         /\ participants'[payments[i].participant_id].payment_status
                            = "paid"
       /\ \A i \in DOMAIN payments :
             payments[i].status = "paid" => payments'[i].status = "paid"]_vars

\* a second delivery found the order already paid by the first
C13_Witness ==
    /\ resp.kind = "ok"
    /\ resp.op = "webhook"
    /\ resp.event = "payment.captured"
    /\ resp.rowcount = 0
    /\ \E i \in OrderRows(resp.order_id) :
          payments[i].status = "paid" /\ payments[i].signature = <<>>

\* C14: each participant has at most one payment row that is not paid, and
\* create_payment_order for a participant with such a row returns its order
\* id and inserts nothing, also when calls run at the same time.
C14_OneOpenOrder ==
    [][/\ \A p \in Participants : Cardinality(UnpaidOrders(p)') <= 1
       /\ \A r \in Reqs :
             (arg[r].op = "create_order" /\ Returning(r)
                /\ UnpaidOrders(arg[r].pid) # {})
             => (/\ payments' = payments
                 /\ resp'.kind = "order"
                 /\ \E row \in UnpaidOrders(arg[r].pid) :
                       resp'.order_id = row.order_id)]_vars

\* C15: for each participant at most one payment row reaches status 'paid'.
C15_OnePaidOrder ==
    \A p \in Participants : Cardinality(PaidOrders(p)) <= 1

\* C16: a participant's payment_status is 'paid' exactly when one of the
\* participant's payment rows is paid; verify_payment and the webhook set
\* both in one commit.
C16_PaidIffPaidOrder ==
    \A p \in DOMAIN participants :
        participants[p].payment_status = "paid"
        <=> \E i \in DOMAIN payments :
               payments[i].participant_id = p /\ payments[i].status = "paid"

\* a webhook has marked an order and its participant paid
C16_Witness ==
    /\ resp.kind = "ok"
    /\ resp.op = "webhook"
    /\ resp.rowcount = 1
    /\ \E i \in OrderRows(resp.order_id) :
          participants[payments[i].participant_id].payment_status = "paid"

\* C17: verify_payment with a signature that fails verification returns
\* InvalidSignature and leaves the payment row and the participant unchanged.
C17_ForgedSignatureRejected ==
    [][/\ (/\ resp'.kind # "none"
           /\ resp'.op = "verify"
           /\ resp'.signature # <<"hmac", resp'.order_id, resp'.payment_id>>)
          => (/\ resp'.kind = "InvalidSignature"
              /\ resp'.code = 400
              /\ tables' = tables)
       /\ \A r \in Reqs :
             arg'[r].op = "verify"
             => arg'[r].signature = <<"hmac", arg'[r].order_id, arg'[r].payment_id>>]_vars

\* a forged verification of an open order was turned down
C17_Witness ==
    /\ resp.kind = "InvalidSignature"
    /\ resp.op = "verify"
    /\ OrderStatus(resp.order_id) = {"created"}

\* C18: verify_payment with a correctly signed order id that matches no
\* payment row returns NotFound and changes no row.
C18_UnknownOrderNotFound ==
    [][(/\ resp'.kind # "none"
        /\ resp'.op = "verify"
        /\ resp'.signature = Sign(resp'.order_id, resp'.payment_id)
        /\ OrderRows(resp'.order_id) = {})
       => (resp'.kind = "NotFound" /\ tables' = tables)]_vars

\* C19: payment_webhook answers every correctly signed payload with
\* {status: ok} and 200: order newly paid, already paid or unknown, or an
\* event other than payment.captured.
C19_WebhookAlwaysOk ==
    [][(/\ resp'.kind # "none"
        /\ resp'.op = "webhook"
        /\ resp'.signature = <<"hmac", resp'.event, resp'.order_id, resp'.payment_id>>)
       => (resp'.kind = "ok" /\ resp'.code = 200)]_vars

\* a correctly signed payment.captured for an unknown order was answered ok
C19_Witness ==
    /\ resp.kind = "ok"
    /\ resp.code = 200
    /\ resp.op = "webhook"
    /\ resp.event = "payment.captured"
    /\ OrderRows(resp.order_id) = {}

-----------------------------------------------------------------------------
(* The winner row is final (checked under SpecReward) *)

\* C20: a reward_winners row is never removed or altered; every
\* select_reward_winner made after it exists returns selected=false with
\* already_winner=true and changes no state, the attempt stamp included; and
\* selected=true is returned at most once per participant.
C20_WinnerIsFinal ==
    [][/\ \A i \in DOMAIN reward_winners :
             i \in DOMAIN reward_winners' /\ reward_winners'[i] = reward_winners[i]
       /\ \A r \in Reqs :
             (pc[r] = "idle" /\ arg'[r].op = "select")
             => WinnerRows(arg'[r].pid) = 0
       /\ (/\ resp'.kind # "none"
           /\ resp'.op = "select"
           /\ \A r \in Reqs : ~Returning(r)
           /\ WinnerRows(resp'.pid) > 0)
          => (/\ resp'.kind = "already_winner"
              /\ resp'.already_winner
              /\ ~resp'.selected
              /\ tables' = tables)
       /\ resp'.kind = "selected"
          => (resp'.selected /\ WinnerRows(resp'.pid) = 0
                /\ Cardinality({i \in DOMAIN reward_winners' :
                       reward_winners'[i].participant_id = resp'.pid}) = 1)]_vars

\* a call made a minute after the win was answered already_winner
C20_Witness ==
    /\ resp.kind = "already_winner"
    /\ WinnerRows(resp.pid) = 1
    /\ now >= 59
    /\ resp.pid \in DOMAIN participant_stats
    /\ participant_stats[resp.pid].last_reward_attempt_at = 0

-----------------------------------------------------------------------------
(* The quality score (checked under SpecQuality) *)

\* C21: for every word count, attention outcome, elapsed time and feedback,
\* calculate_quality_score is in [0, 1] and equals 0.4*min(word_count/150, 1)
\* + 0.3*a + 0.2*t + 0.1*min(len(feedback)/50, 1) rounded to 3 decimals, with
\* a = 0 only for a failed attention check and t one of 0.5 and 1; 150 words,
\* a passed check, 60 s and 50 feedback characters give 1.000.
C21_QualityScoreFormula ==
    resp.kind = "quality" =>
        LET words == IF resp.word_count < 150 THEN resp.word_count ELSE 150
            chars == IF resp.feedback_len < 50 THEN resp.feedback_len ELSE 50
            a == IF resp.attention_passed = "FALSE" THEN 0 ELSE 1
        IN /\ 0 <= resp.quality_score /\ resp.quality_score <= 1000
           /\ \E t \in {1, 2} :
                 LET exact3000 == 8 * words + 900 * a + 300 * t + 6 * chars
                 IN /\ 2 * exact3000 - 3 <= 6 * resp.quality_score
                    /\ 6 * resp.quality_score <= 2 * exact3000 + 3
           /\ (/\ resp.word_count = 150 /\ resp.attention_passed = "TRUE"
               /\ resp.time_spent = 60 /\ resp.feedback_len = 50)
              => resp.quality_score = 1000

\* a submission that is no attention check, with words and feedback below
\* their targets, is scored between 0 and 1
C21_Witness ==
    /\ resp.kind = "quality"
    /\ resp.attention_passed = "NULL"
    /\ resp.word_count = 59
    /\ resp.feedback_len = 5
    /\ resp.time_spent = 4
    /\ resp.quality_score = 567

-----------------------------------------------------------------------------
(* Acceptance and validation of submit (checked under Spec) *)

-----------------------------------------------------------------------------
(* Registration (checked under SpecRegistration) *)

\* C24: create_participant with a participant_id that is already registered
\* returns Conflict (409) and leaves the existing row as it is; no second
\* INSERT of an id gets through, also when two registrations of the id run at
\* the same time, so there is one row per participant_id.
C24_DuplicateRegistrationConflict ==
    [][/\ (/\ resp'.kind # "none"
           /\ resp'.op = "create_participant"
           /\ resp'.pid \in DOMAIN participants)
          => (/\ resp'.kind = "Conflict"
              /\ resp'.code = 409
              /\ tables' = tables)
       /\ \A r \in Reqs :
             /\ (pc[r] = "idle" /\ arg'[r].op = "create_participant")
                => /\ arg'[r].pid \notin DOMAIN participants
                   /\ \A q \in Reqs \ {r} :
                         ~(arg[q].op = "create_participant"
                             /\ arg[q].pid = arg'[r].pid)
             /\ (pc[r] = "c_commit" /\ Returning(r))
                => /\ arg[r].pid \notin DOMAIN participants
                   /\ resp'.kind = "created"
                   /\ resp'.code = 201
       /\ \A p \in DOMAIN participants :
             /\ p \in DOMAIN participants'
             /\ participants'[p].payment_status = "paid"
                \/ participants'[p].payment_status = participants[p].payment_status]_vars

\* a second registration of a participant who has paid was refused
C24_Witness ==
    /\ resp.kind = "Conflict"
    /\ resp.op = "create_participant"
    /\ participants[resp.pid].payment_status = "paid"

-----------------------------------------------------------------------------
(* The counters beside the submission rows (checked under Spec) *)

\* number of rows of the bag of submissions among the rows S
RECURSIVE CountRows(_)
CountRows(S) ==
    IF S = {} THEN 0
    ELSE LET row == CHOOSE row \in S : TRUE
         IN CopiesIn(row, submissions) + CountRows(S \ {row})

\* sum of word_count over the rows of the bag of submissions among the rows S
RECURSIVE SumWords(_)
SumWords(S) ==
    IF S = {} THEN 0
    ELSE LET row == CHOOSE row \in S : TRUE
         IN row.word_count * CopiesIn(row, submissions) + SumWords(S \ {row})

AttentionSubmissions(p, outcomes) ==
    {row \in SubmissionsOf(p) : row.is_attention /\ row.attention_passed \in outcomes}

\* C25: for every participant, total_checks is the number of persisted
\* attention-check submissions, and passed_checks and failed_checks are the
\* numbers of those that passed and failed, whatever the interleaving of
\* submits.
C25_AttentionStatsCountSubmissions ==
    \A p \in Participants :
        LET total == CountRows(AttentionSubmissions(p, {"TRUE", "FALSE"}))
            passed == CountRows(AttentionSubmissions(p, {"TRUE"}))
            failed == CountRows(AttentionSubmissions(p, {"FALSE"}))
        IN IF p \in DOMAIN attention_stats
           THEN /\ attention_stats[p].total_checks = total
                /\ attention_stats[p].passed_checks = passed
                /\ attention_stats[p].failed_checks = failed
           ELSE total = 0

\* C26: for every participant with a persisted submission, total_submissions
\* is the number of their submission rows, total_words the sum of the rows'
\* word_count and survey_rounds the number of rows with is_survey, whatever
\* the interleaving of submits.
C26_ParticipantStatsSumSubmissions ==
    \A p \in Participants :
        SubmissionsOf(p) # {} =>
            /\ p \in DOMAIN participant_stats
            /\ participant_stats[p].total_submissions = CountRows(SubmissionsOf(p))
            /\ participant_stats[p].total_words = SumWords(SubmissionsOf(p))
            /\ participant_stats[p].survey_rounds =
                  CountRows({row \in SubmissionsOf(p) : row.is_survey})

\* C27: a participant's participant_stats.attention_score is the
\* attention_score of their attention_stats row when there is one, and 1.0
\* when there is none.
C27_AttentionScoresAgree ==
    \A p \in DOMAIN participant_stats :
        ScoreEq(participant_stats[p].attention_score,
                IF p \in DOMAIN attention_stats
                THEN attention_stats[p].attention_score
                ELSE FullScore)

-----------------------------------------------------------------------------
(* The answers of the lottery (checked under SpecReward) *)

\* C28: a select_reward_winner call answers selected=true exactly when it
\* committed a new reward_winners row for the participant, and that row has
\* reward_amount 10 and status 'pending'; no other step adds a winner row.
C28_SelectedIffWinnerRowCommitted ==
    [][/\ (resp'.kind # "none" /\ resp'.op = "select")
          => (resp'.selected <=>
                 reward_winners' =
                     Append(reward_winners,
                            [participant_id |-> resp'.pid, reward_amount |-> 10,
                             status |-> "pending"]))
       /\ reward_winners' # reward_winners
          => (/\ resp'.kind = "selected"
              /\ resp'.op = "select"
              /\ resp'.selected
              /\ resp'.reward_amount = 10)]_vars

\* a call has answered selected=true and its pending row of 10 is stored
C28_Witness ==
    /\ resp.kind = "selected"
    /\ resp.selected
    /\ \E i \in DOMAIN reward_winners :
          reward_winners[i] = [participant_id |-> resp.pid, reward_amount |-> 10,
                               status |-> "pending"]

\* C29: a call for a participant without a winner row whose last attempt
\* stamp is absent or at least 60 seconds old passes the cooldown check
\* without an answer, and the call of a registered participant without a
\* winner row then stamps last_reward_attempt_at and draws.
C29_NoCooldownAfterSixtySeconds ==
    [][\A r \in Reqs :
          /\ (/\ pc[r] = "l_cooldown"
              /\ pc'[r] # "l_cooldown"
              /\ \/ LastAttempt(arg[r].pid) = NULL
                 \/ now - LastAttempt(arg[r].pid) >= 60)
             => (/\ pc'[r] = "l_score"
                 /\ resp'.kind = "none"
                 /\ tables' = tables)
          /\ (pc[r] = "l_score" /\ pc'[r] # "l_score") => pc'[r] = "l_stamp"
          /\ (/\ pc[r] = "l_stamp"
              /\ pc'[r] # "l_stamp"
              /\ arg[r].pid \in DOMAIN participants
              /\ WinnerRows(arg[r].pid) = 0)
             => (/\ resp'.kind \in {"selected", "not_selected"}
                 /\ ~("cooldown_active" \in DOMAIN resp')
                 /\ arg[r].pid \in DOMAIN participant_stats'
                 /\ participant_stats'[arg[r].pid].last_reward_attempt_at =
                       loc[r].txstart
                 /\ Len(draws'[arg[r].pid]) > 0
                 /\ draws'[arg[r].pid][Len(draws'[arg[r].pid])].at = now)]_vars

\* a non-winner has drawn again sixty seconds after a first draw
C29_Witness ==
    /\ resp.kind = "not_selected"
    /\ resp.op = "select"
    /\ WinnerRows(resp.pid) = 0
    /\ Len(draws[resp.pid]) = 2
    /\ draws[resp.pid][2].at = draws[resp.pid][1].at + 60
    /\ LastAttempt(resp.pid) >= 60

\* C30: whenever select_reward_winner answers cooldown_active, retry_after is
\* an integer from 1 to 60, and it is 60 minus the whole seconds elapsed
\* since last_reward_attempt_at.
C30_RetryAfterRange ==
    (resp.kind = "cooldown" /\ resp.cooldown_active)
    => (/\ resp.retry_after \in 1..60
        /\ LastAttempt(resp.pid) # NULL
        /\ resp.retry_after = 60 - (now - LastAttempt(resp.pid)))

\* a call in the second of the stamp was told to wait the full sixty seconds
C30_Witness ==
    /\ resp.kind = "cooldown"
    /\ resp.cooldown_active
    /\ resp.retry_after = 60

-----------------------------------------------------------------------------
(* The parts of the quality score (checked under SpecQuality) *)

\* C31: the time sub-score is 0.5 exactly when the elapsed seconds are below
\* the too-fast threshold, an elapsed time of 0 included, and 1.0 otherwise;
\* so it is 0.5 exactly when the too_fast_flag of the submission is true.
C31_TimeScoreHalfIffTooFast ==
    resp.kind = "quality" =>
        /\ resp.time_score \in {5, 10}
        /\ resp.time_score = 5 <=>
              (resp.time_spent # NULL /\ resp.time_spent < 5)
        /\ resp.time_score = 5 <=> resp.too_fast_flag

\* C32 as stated: no words, a failed attention check, one second and no
\* feedback score 0.300.
C32_ExampleScoresThreeTenths ==
    (/\ resp.kind = "quality"
     /\ resp.word_count = 0
     /\ resp.attention_passed = "FALSE"
     /\ resp.time_spent = 1
     /\ resp.feedback_len = 0)
    => resp.quality_score = 300

\* C32: no words, a failed attention check, one second (below the too-fast
\* threshold) and no feedback score 0.100: only the halved time sub-score
\* with its weight of 0.2 is left.
C32_ExampleScoresOneTenth ==
    (/\ resp.kind = "quality"
     /\ resp.word_count = 0
     /\ resp.attention_passed = "FALSE"
     /\ resp.time_spent = 1
     /\ resp.feedback_len = 0)
    => resp.quality_score = 100

\* the example has been scored
C32_Witness ==
    /\ resp.kind = "quality"
    /\ resp.word_count = 0
    /\ resp.attention_passed = "FALSE"
    /\ resp.time_spent = 1
    /\ resp.time_score = 5
    /\ resp.feedback_len = 0
    /\ resp.quality_score = 100

-----------------------------------------------------------------------------
(* The attention match (checked under SpecAttention) *)

\* C33 as stated: attention_passed is true iff the lowercased description
\* contains the lowercased expected term, as a whole word between word
\* boundaries when strict is true, as any substring when strict is false.
C33_MatchesLowercasedTerm ==
    resp.kind = "attention" =>
        LET t == Lower(resp.expected_word)
            d == Lower(resp.description)
        IN resp.attention_passed <=>
              \E i \in 1..(Len(d) + 1) :
                  /\ i + Len(t) - 1 <= Len(d)
                  /\ \A k \in 1..Len(t) : d[i + k - 1] = t[k]
                  /\ resp.strict =>
                        /\ WordBoundary(d, i)
                        /\ WordBoundary(d, i + Len(t))

\* C33: attention_passed is true iff the lowercased description contains the
\* expected term, lowercased and without the whitespace around it, as a whole
\* word between word boundaries when strict is true, as any substring when
\* strict is false.
C33_MatchesTrimmedLowercasedTerm ==
    resp.kind = "attention" =>
        LET t == Lower(Strip(resp.expected_word))
            d == Lower(resp.description)
        IN resp.attention_passed <=>
              \E i \in 1..(Len(d) + 1) :
                  /\ i + Len(t) - 1 <= Len(d)
                  /\ \A k \in 1..Len(t) : d[i + k - 1] = t[k]
                  /\ resp.strict =>
                        /\ WordBoundary(d, i)
                        /\ WordBoundary(d, i + Len(t))

\* a strict check failed on a description that holds the term only inside a
\* longer word, in another case
C33_Witness ==
    /\ resp.kind = "attention"
    /\ resp.strict
    /\ resp.expected_word = <<"a">>
    /\ resp.description = <<"b", "A">>
    /\ ~resp.attention_passed

-----------------------------------------------------------------------------
(* Submissions that are no attention check (checked under SpecCatalog) *)

\* C34: an accepted submit whose image has no active attention_checks row,
\* none at all or an inactive one, answers attention_passed null, stores a
\* submission with is_attention false and no attention score snapshot, and
\* leaves attention_stats as it was.
C34_NoActiveCheckNoAttention ==
    [][\A r \in Reqs :
          (/\ pc[r] = "s_ps_write"
           /\ Returning(r)
           /\ resp'.kind = "ok"
           /\ ~(/\ arg[r].payload.image_id \in DOMAIN attention_checks
                /\ attention_checks[arg[r].payload.image_id].is_active))
          => (/\ resp'.attention_passed = "NULL"
              /\ BagCardinality(submissions') = BagCardinality(submissions) + 1
              /\ \A row \in BagToSet(submissions') :
                    CopiesIn(row, submissions') > CopiesIn(row, submissions)
                    => (/\ row.image_id = arg[r].payload.image_id
                        /\ ~row.is_attention
                        /\ row.attention_passed = "NULL"
                        /\ row.attention_score_at_submission = <<>>)
              /\ attention_stats' = attention_stats)]_vars

\* a submission on the image with the inactive check that names the expected
\* word was accepted after a passed check, and counted as no check
C34_Witness ==
    /\ resp.kind = "ok"
    /\ resp.attention_passed = "NULL"
    /\ \E row \in SubmissionsOf(resp.pid) :
          row.image_id = "attn_off" /\ ~row.is_attention
    /\ resp.pid \in DOMAIN attention_stats
    /\ attention_stats[resp.pid].total_checks = 1

-----------------------------------------------------------------------------
(* Registration beside consent (checked under SpecRegistration) *)

\* C35: once create_participant and record_consent of one participant have
\* both completed with success, in either order or overlapping, the
\* participant's row has consent_given = true.
C35_ConsentGivenAfterBoth ==
    \A p \in RegistrationIds :
        (/\ p \in DOMAIN participants
         /\ p \in consent_records
         /\ \A r \in Reqs : pc[r] = "idle" \/ arg[r].pid # p)
        => participants[p].consent_given

-----------------------------------------------------------------------------
(* Paid orders (checked under SpecPayment) *)

\* C36: once a payments row has status 'paid', no verify_payment or
\* payment_webhook call changes its payment id, signature or paid_at, and the
\* participant's payment_status never leaves 'paid'.
C36_PaidRowIsFinal ==
    [][/\ \A i \in DOMAIN payments :
             payments[i].status = "paid"
             => (/\ i \in DOMAIN payments'
                 /\ payments'[i].status = "paid"
                 /\ payments'[i].payment_id = payments[i].payment_id
                 /\ payments'[i].signature = payments[i].signature
                 /\ payments'[i].paid_at = payments[i].paid_at)
       /\ \A p \in DOMAIN participants :
             participants[p].payment_status = "paid"
             => (/\ p \in DOMAIN participants'
                 /\ participants'[p].payment_status = "paid")]_vars

-----------------------------------------------------------------------------
(* The two writers of participant_stats (checked under SpecReward) *)

\* C37: no step of select_reward_winner changes total_words,
\* total_submissions, survey_rounds, priority_eligible or attention_score of
\* a participant_stats row, and no step of submit changes
\* last_reward_attempt_at, whatever the interleaving of the two operations.
C37_StatsWritersKeepApart ==
    [][\A r \in Reqs :
          pc'[r] # pc[r] =>
             LET op == IF pc[r] = "idle" THEN arg'[r].op ELSE arg[r].op
             IN /\ op = "select" =>
                      \A p \in DOMAIN participant_stats :
                          /\ p \in DOMAIN participant_stats'
                          /\ \A k \in {"total_words", "total_submissions",
                                       "survey_rounds", "priority_eligible",
                                       "attention_score"} :
                                participant_stats'[p][k] = participant_stats[p][k]
                /\ op = "submit" =>
                      \A p \in DOMAIN participant_stats :
                          /\ p \in DOMAIN participant_stats'
                          /\ participant_stats'[p].last_reward_attempt_at =
                                participant_stats[p].last_reward_attempt_at]_vars

\* a second lottery attempt has stamped a row that holds the totals of a
\* submission: the totals and the stamp are both there
C37_Witness ==
    /\ resp.kind = "not_selected"
    /\ resp.op = "select"
    /\ resp.pid \in DOMAIN participant_stats
    /\ participant_stats[resp.pid].total_submissions = 1
    /\ participant_stats[resp.pid].total_words = 500
    /\ participant_stats[resp.pid].last_reward_attempt_at >= 59
    /\ Len(draws[resp.pid]) = 2

-----------------------------------------------------------------------------
(* The flag over time (checked under Spec) *)

\* C38: once is_flagged of a participant's attention_stats row is true in a
\* committed state it is true in every later state, whatever the interleaving
\* of submits, those that passed the gate before the flag was set included.
C38_FlagStaysSet ==
    [][\A p \in Participants :
          (p \in DOMAIN attention_stats /\ attention_stats[p].is_flagged)
          => (/\ p \in DOMAIN attention_stats'
              /\ attention_stats'[p].is_flagged)]_vars

====
